---- MODULE Spec2Model ----
(***************************************************************************)
(* Product Description Platform API (src/main.py): the product store, the  *)
(* generation client and the CRUD handlers, as a state machine.            *)
(*                                                                         *)
(* Representation of Python values.  A str is the sequence of its          *)
(* characters, a list is a sequence, None is the value None below, a dict  *)
(* with a fixed key set is a record, a dict with a varying key set is a    *)
(* function, a datetime is <<"dt", t>> and its isoformat() string is       *)
(* <<"iso", t>>.  A str the program inspects character by character (a     *)
(* description, a completion, an exception message) is written character   *)
(* by character; a str it only stores, compares or looks up is written as  *)
(* one token, <<"Lamp">>, and the empty str is <<>> in both.  Every        *)
(* handler is an `async def` without an await, so it runs to completion    *)
(* on the event loop: one action per handler.                              *)
(***************************************************************************)
EXTENDS Integers, Sequences, FiniteSets, TLC

VARIABLES
    products_db,    \* main.py:215  the in-memory map, an insertion-ordered dict
    file,           \* main.py:32   the content of DATA_FILE
    writer_client,  \* main.py:35   the lazily built provider handle
    api_key,        \* main.py:95   whether WRITER_API_KEY is set for this process
    clock,          \* the last reading of the wall clock by datetime.utcnow()
    uuid_count,     \* how many ids uuid4() has returned so far
    nops,           \* how many requests and restarts have been handled
    last,           \* what the last request was and how it was answered
    hist,           \* which ids were loaded, inserted, removed, created, deleted
    tasks           \* the coroutines of the requests in flight on the event loop

vars ==
    <<products_db, file, writer_client, api_key, clock, uuid_count, nops, last, hist, tasks>>

----------------------------------------------------------------------------
(* Bounds of the model. *)

MaxOps == 2

(* The longest JSON array the start of the process is tried on. *)
MaxItems == 2

----------------------------------------------------------------------------
(* Python values. *)

None == <<"None">>
Unset == <<"unset">>

Truthy(x) == x # None /\ x # <<>>

Whitespace == {" ", "\n", "\t"}

RECURSIVE lstrip(_)
lstrip(s) ==
    IF s # <<>> /\ Head(s) \in Whitespace THEN lstrip(Tail(s)) ELSE s

RECURSIVE rstrip(_)
rstrip(s) ==
    IF s # <<>> /\ s[Len(s)] \in Whitespace THEN rstrip(SubSeq(s, 1, Len(s) - 1)) ELSE s

strip(s) == rstrip(lstrip(s))

Lower(c) ==
    CASE c = "A" -> "a" [] c = "P" -> "p" [] c = "I" -> "i" [] c = "K" -> "k"
      [] c = "E" -> "e" [] c = "Y" -> "y" [] c = "R" -> "r" [] c = "T" -> "t"
      [] c = "L" -> "l" [] c = "M" -> "m" [] OTHER -> c

lower(s) == [i \in 1..Len(s) |-> Lower(s[i])]

Contains(sub, s) ==
    \E i \in 0..(Len(s) - Len(sub)) : SubSeq(s, i + 1, i + Len(sub)) = sub

(* datetime.utcnow(): the clock has advanced by `tick` since it was last read. *)
utcnow(tick) == <<"dt", clock + tick>>
isoformat(d) == <<"iso", d[2]>>
parse_datetime(v) == <<"dt", v[2]>>
IsDatetime(v) == v[1] = "dt"
Instant(v) == v[2]

Uuid(n) == <<"u", n>>
uuid4 == Uuid(uuid_count + 1)

----------------------------------------------------------------------------
(* The models of the requests and of the stored records. *)

BriefFields ==
    {"name", "category", "brand", "tagline", "features", "seo_keywords",
     "tone", "audience", "language", "additional_notes", "length"}

ClearableFields ==
    {"category", "brand", "tagline", "audience", "additional_notes",
     "tone", "language", "length"}

ProtectedFields == {"created_at", "updated_at", "id"}

ProductFields == BriefFields \cup {"id", "description", "created_at", "updated_at"}

(* An insertion-ordered dict: a sequence of <<key, value>> entries. *)
Keys(d) == {d[i][1] : i \in 1..Len(d)}
Values(d) == [i \in 1..Len(d) |-> d[i][2]]
IndexOf(d, k) == CHOOSE i \in 1..Len(d) : d[i][1] = k
Get(d, k) == IF k \in Keys(d) THEN d[IndexOf(d, k)][2] ELSE None
Put(d, k, v) ==
    IF k \in Keys(d) THEN [d EXCEPT ![IndexOf(d, k)] = <<k, v>>] ELSE Append(d, <<k, v>>)
(* A slip: the entry is not taken out. *)
Del_kept(d, k) == d

Del(d, k) == SubSeq(d, 1, IndexOf(d, k) - 1) \o SubSeq(d, IndexOf(d, k) + 1, Len(d))

EmptyDict == [f \in {} |-> None]
Dict1(f, v) == [g \in {f} |-> v]

(* The record under a key as a sequence: empty when the key is absent. *)
Lookup(d, k) == IF k \in Keys(d) THEN <<Get(d, k)>> ELSE <<>>

----------------------------------------------------------------------------
(* Pydantic models. *)

to_datetime(v) == IF IsDatetime(v) THEN v ELSE parse_datetime(v)

(* ProductResponse of a dict: the fields of the model, the two timestamps parsed. *)
ProductResponse(data) ==
    [f \in ProductFields |->
        IF f \in {"created_at", "updated_at"} THEN to_datetime(data[f]) ELSE data[f]]

(* ProductBrief of a dict: the Brief fields of data. *)
ProductBrief(data) == [f \in BriefFields |-> data[f]]

----------------------------------------------------------------------------
(* The product store. *)

(* The content of DATA_FILE: no file; a file open() cannot read; bytes that
   are not UTF-8; text that is not a JSON document; a JSON document that is
   not an array; a JSON array, as the list json.load returns. *)
FileMissing == <<"missing">>
FileUnreadable == <<"unreadable">>
FileNotUtf8 == <<"not_utf8">>
FileCorrupt == <<"corrupt">>
FileObject == <<"object">>
FileList(items) == <<"list", items>>

(* An element of the array that is not a JSON object, and an id that is a
   JSON array or object that is not empty: a value dict keys cannot be. *)
NotADict(v) == [json |-> v]
item_is_dict(item) == "json" \notin DOMAIN item
Unhashable == <<"unhashable">>

item_get_id(item) == IF "id" \in DOMAIN item THEN item["id"] ELSE None

(* The filter of the dict comprehension: isinstance(item, dict) and item.get("id"). *)
item_kept(item) == item_is_dict(item) /\ Truthy(item_get_id(item))

RECURSIVE dict_of_items(_, _)
dict_of_items(items, acc) ==
    IF items = <<>> THEN acc
    ELSE dict_of_items(Tail(items),
            IF item_kept(Head(items))
            THEN Put(acc, Head(items)["id"], Head(items))
            ELSE acc)

(* load_products() raises what its except clause does not name: the
   UnicodeDecodeError of the read, and the TypeError of a key that cannot be
   hashed. *)
load_raises(f) ==
    \/ f = FileNotUtf8
    \/ /\ f[1] = "list"
       /\ \E i \in 1..Len(f[2]) : item_kept(f[2][i]) /\ item_get_id(f[2][i]) = Unhashable

(* load_products() when it returns. *)
load_products(f) ==
    IF f[1] # "list" \/ load_raises(f) THEN <<>>
    ELSE dict_of_items(f[2], <<>>)

(* A slip: a field whose value is falsy is left out of the entry. *)
save_entry_skips_empty(product) ==
    [f \in {g \in DOMAIN product : Truthy(product[g])} |->
        IF f \in {"created_at", "updated_at"} /\ IsDatetime(product[f])
        THEN isoformat(product[f]) ELSE product[f]]

save_entry(product) ==
    [f \in DOMAIN product |->
        IF f \in {"created_at", "updated_at"} /\ IsDatetime(product[f])
        THEN isoformat(product[f]) ELSE product[f]]

serialized_products(products) ==
    [i \in 1..Len(products) |-> save_entry(products[i][2])]

(* io: "ok", or where the write fails: in open(), which leaves the file as it
   was, or after open() has truncated it, which leaves a strict prefix of the
   new JSON text, never a JSON document. *)
IoOutcomes == {"ok", "open_fails", "write_fails"}

(* A slip: the file is opened to append, so the new text follows the old. *)
save_products_append(products, f, io) ==
    CASE io = "ok" ->
            [raised |-> FALSE,
             file |-> IF f = FileMissing THEN FileList(serialized_products(products))
                      ELSE FileCorrupt]
      [] io = "open_fails" -> [raised |-> TRUE, file |-> f]
      [] OTHER -> [raised |-> TRUE, file |-> FileCorrupt]

(* A slip: the OSError of the write is caught and dropped. *)
save_products_swallows(products, f, io) ==
    CASE io = "ok" -> [raised |-> FALSE, file |-> FileList(serialized_products(products))]
      [] io = "open_fails" -> [raised |-> FALSE, file |-> f]
      [] OTHER -> [raised |-> FALSE, file |-> FileCorrupt]

save_products(products, f, io) ==
    CASE io = "ok" -> [raised |-> FALSE, file |-> FileList(serialized_products(products))]
      [] io = "open_fails" -> [raised |-> TRUE, file |-> f]
      [] OTHER -> [raised |-> TRUE, file |-> FileCorrupt]

serialize_product(product) ==
    [product EXCEPT !.created_at = isoformat(product.created_at),
                    !.updated_at = isoformat(product.updated_at)]

----------------------------------------------------------------------------
(* The generation client. *)

Str_api_key == <<"a", "p", "i", "_", "k", "e", "y">>
Str_rate_limit == <<"r", "a", "t", "e", " ", "l", "i", "m", "i", "t">>
Str_empty_description ==
    <<"R", "e", "c", "e", "i", "v", "e", "d", " ", "e", "m", "p", "t", "y", " ", "d", "e", "s", "c", "r", "i", "p", "t", "i", "o", "n", " ", "f", "r", "o", "m", " ", "W", "r", "i", "t", "e", "r", " ", "A", "P", "I">>

Or(v, default) == IF Truthy(v) THEN v ELSE default

(* A slip: a length that is not a profile falls back to "standard". *)
max_tokens_of_standard(length) ==
    LET key == Or(length, <<"detailed">>)
    IN  CASE key = <<"short">> -> 320
          [] key = <<"detailed">> -> 780
          [] OTHER -> 520

max_tokens_of(length) ==
    LET key == Or(length, <<"detailed">>)
    IN  CASE key = <<"short">> -> 320
          [] key = <<"standard">> -> 520
          [] OTHER -> 780

build_generation_prompt(brief) ==
    <<[name |-> brief.name,
       category |-> Or(brief.category, <<"General">>),
       brand |-> Or(brief.brand, <<"Not specified">>),
       tagline |-> Or(brief.tagline, <<"Not specified">>),
       audience |-> Or(brief.audience, <<"Online shoppers">>),
       tone |-> Or(brief.tone, <<"balanced">>),
       language |-> Or(brief.language, <<"English">>),
       features |-> Or(brief.features, <<"- Highlight key differentiators.">>),
       keywords |-> Or(brief.seo_keywords, <<"None provided">>),
       notes |-> Or(brief.additional_notes, <<"None">>),
       max_tokens |-> max_tokens_of(brief.length)],
      max_tokens_of(brief.length)>>

(* A slip: without `global writer_client` the handle built is a local of the
   call, and the module's handle stays None. *)
get_writer_client_local(client, key) ==
    IF client = None
    THEN IF ~key THEN [raised |-> TRUE, client |-> client, built |-> FALSE]
                 ELSE [raised |-> FALSE, client |-> client, built |-> TRUE]
    ELSE [raised |-> FALSE, client |-> client, built |-> FALSE]

(* get_writer_client(): the handle, built on first use when the key is set;
   `built` says that this call constructed a Writer. *)
get_writer_client(client, key) ==
    IF client = None
    THEN IF ~key THEN [raised |-> TRUE, client |-> client, built |-> FALSE]
                 ELSE [raised |-> FALSE, client |-> <<"Writer">>, built |-> TRUE]
    ELSE [raised |-> FALSE, client |-> client, built |-> FALSE]

(* A slip: the message is searched as it is, not lowered. *)
classify_case_sensitive(message) ==
    IF Contains(Str_api_key, message) THEN 401
    ELSE IF Contains(Str_rate_limit, message) THEN 429
    ELSE 500

classify(message) ==
    IF Contains(Str_api_key, lower(message)) THEN 401
    ELSE IF Contains(Str_rate_limit, lower(message)) THEN 429
    ELSE 500

(* The detail of the HTTPException raised with each status. *)
Detail_not_configured == <<"Writer API key not configured. Set WRITER_API_KEY to enable generation.">>
Detail_invalid_key == <<"Invalid Writer API key provided.">>
Detail_rate_limit == <<"Writer API rate limit exceeded. Please retry shortly.">>
Detail_error_prefix == <<"Error generating description: ">>

detail_of(message) ==
    CASE classify(message) = 401 -> Detail_invalid_key
      [] classify(message) = 429 -> Detail_rate_limit
      [] OTHER -> Detail_error_prefix \o message

(* What the provider does with one chat call: a completion or an exception. *)
Completion(content) == [kind |-> "completion", text |-> content]
Raises(message) == [kind |-> "raise", text |-> message]

(* generate_product_description(brief) with the provider answering `outcome`:
   the HTTP status raised (0 when it returns) and its detail, the description
   returned, the handle afterwards, whether a Writer was constructed, the
   number of provider calls made, and the prompt and max_tokens sent. *)
generate_product_description(brief, client, key, outcome) ==
    LET got == get_writer_client(client, key)
        prompt == build_generation_prompt(brief)
        description == strip(outcome.text)
    IN  IF got.raised
        THEN [status |-> 503, detail |-> Detail_not_configured, description |-> None,
              client |-> got.client, built |-> got.built, provider |-> 0, prompt |-> <<>>]
        ELSE IF outcome.kind = "raise"
        THEN [status |-> classify(outcome.text), detail |-> detail_of(outcome.text),
              description |-> None,
              client |-> got.client, built |-> got.built, provider |-> 1,
              prompt |-> <<prompt>>]
        ELSE IF ~Truthy(description)
        THEN [status |-> classify(Str_empty_description),
              detail |-> detail_of(Str_empty_description), description |-> None,
              client |-> got.client, built |-> got.built, provider |-> 1,
              prompt |-> <<prompt>>]
        ELSE [status |-> 0, detail |-> <<>>, description |-> description,
              client |-> got.client, built |-> got.built, provider |-> 1,
              prompt |-> <<prompt>>]

----------------------------------------------------------------------------
(* The product service: the pieces of the handlers. *)

PyTrue == <<"True">>
PyFalse == <<"False">>

(* What the model keeps of the last request: the operation, the id in its
   path (or the id created), the status answered, how often the generation
   client and the provider were called, how the save went, the request body,
   the record stored under the id before the request, if there was one, and
   what passed between the handler and the generation client. *)
Response(op, id, status, gen, provider, io, request, before, generation) ==
    [op |-> op, id |-> id, status |-> status, gen |-> gen, provider |-> provider,
     io |-> io, request |-> request, before |-> before, generation |-> generation]

NoCall == [kind |-> "none", text |-> <<>>]

(* One call of generate_product_description as the handler saw it: the brief
   passed, the provider's answer, the prompt and max_tokens sent, the text
   returned, and the status and detail raised. *)
Generation(brief, outcome, g) ==
    [brief |-> <<brief>>, outcome |-> outcome, prompt |-> g.prompt,
     description |-> g.description, status |-> g.status, detail |-> g.detail,
     built |-> g.built]

NotGenerated ==
    [brief |-> <<>>, outcome |-> NoCall, prompt |-> <<>>, description |-> None,
     status |-> 0, detail |-> <<>>, built |-> FALSE]

(* The answer of the provider, or of the file system, exists when it is asked. *)
Asked(called, answer, none) == called <=> answer # none

(* A slip: without `if not product` a missing record goes to ProductResponse,
   whose validation error is answered 500. *)
get_product_or_404_unchecked(db, product_id) ==
    IF product_id \notin Keys(db) \/ DOMAIN Get(db, product_id) = {}
    THEN [status |-> 500, product |-> None]
    ELSE [status |-> 200, product |-> ProductResponse(Get(db, product_id))]

(* products_db.get(product_id), `if not product`, ProductResponse of it. *)
get_product_or_404(db, product_id) ==
    IF product_id \notin Keys(db) \/ DOMAIN Get(db, product_id) = {}
    THEN [status |-> 404, product |-> None]
    ELSE [status |-> 200, product |-> ProductResponse(Get(db, product_id))]

list_products(db) == [i \in 1..Len(db) |-> ProductResponse(db[i][2])]

(* A slip: the explicit description is looked at only when auto_generate is set. *)
needs_generation_both(request) ==
    request.auto_generate
        /\ ~(Truthy(request.description) /\ Truthy(strip(request.description)))

(* create_product: whether the description is generated. *)
needs_generation(request) ==
    request.auto_generate
        \/ ~(Truthy(request.description) /\ Truthy(strip(request.description)))

(* create_product: the record built from the brief. *)
new_product(brief, description, product_id, now) ==
    ProductResponse(
        [f \in ProductFields |->
            CASE f = "id" -> product_id
              [] f = "description" -> strip(description)
              [] f = "created_at" -> now
              [] f = "updated_at" -> now
              [] OTHER -> brief[f]])

(* ProductUpdateRequest of a JSON body: the fields of the model that the body
   sets; a key the model does not declare is ignored. *)
UpdateRequestFields == BriefFields \cup {"description", "regenerate_description"}

ProductUpdateRequest(body) == [f \in DOMAIN body \cap UpdateRequestFields |-> body[f]]

(* update_product: request.dict(exclude_unset=True) and the pop of the flag. *)
pop_regenerate(request) ==
    IF "regenerate_description" \in DOMAIN request
    THEN request["regenerate_description"] ELSE PyFalse

without_regenerate(request) ==
    [f \in DOMAIN request \ {"regenerate_description"} |-> request[f]]

(* A slip: `if not value` for `if value is None`, so an empty value clears. *)
merge_fields_falsy(payload, update_data) ==
    LET looped ==
            [f \in DOMAIN payload |->
                IF f \in DOMAIN update_data /\ f \notin ProtectedFields
                THEN IF ~Truthy(update_data[f])
                     THEN IF f \in ClearableFields THEN None ELSE payload[f]
                     ELSE update_data[f]
                ELSE payload[f]]
        reset(f, v) ==
            IF f \in DOMAIN update_data /\ update_data[f] = None THEN <<>> ELSE v
    IN  [looped EXCEPT !.features = reset("features", @),
                       !.seo_keywords = reset("seo_keywords", @)]

(* update_product: the merge of update_data over the existing record. *)
merge_fields(payload, update_data) ==
    LET looped ==
            [f \in DOMAIN payload |->
                IF f \in DOMAIN update_data /\ f \notin ProtectedFields
                THEN IF update_data[f] = None
                     THEN IF f \in ClearableFields THEN None ELSE payload[f]
                     ELSE update_data[f]
                ELSE payload[f]]
        reset(f, v) ==
            IF f \in DOMAIN update_data /\ update_data[f] = None THEN <<>> ELSE v
    IN  [looped EXCEPT !.features = reset("features", @),
                       !.seo_keywords = reset("seo_keywords", @)]

(* A slip: the flag is looked at before the explicit description. *)
description_source_flag_first(update_data, regenerate) ==
    IF regenerate = PyTrue THEN "generate"
    ELSE IF "description" \in DOMAIN update_data /\ update_data["description"] # None
    THEN "explicit" ELSE "keep"

(* update_product: which of the three ways the description is resolved. *)
description_source(update_data, regenerate) ==
    IF "description" \in DOMAIN update_data /\ update_data["description"] # None
    THEN "explicit"
    ELSE IF regenerate = PyTrue THEN "generate" ELSE "keep"

(* A slip: the brief is taken from the record as it was before the merge. *)
regeneration_brief_stale(existing, updated_payload) == ProductBrief(existing)

(* update_product: the brief passed to the generation client. *)
regeneration_brief(existing, updated_payload) == ProductBrief(updated_payload)

(* A slip: the merge is made in the stored record itself, not in a copy. *)
map_during_update_aliased(db, product_id, updated_payload) ==
    Put(db, product_id, serialize_product(updated_payload))

(* update_product: the map when the description has been resolved and
   nothing is stored yet; the merge was made in existing.dict(), a copy. *)
map_during_update(db, product_id, updated_payload) == db

(* A slip: the update stamps created_at as well. *)
finalize_stamps_both(updated_payload, description, now) ==
    ProductResponse([updated_payload EXCEPT !.description = description,
                                            !.created_at = now,
                                            !.updated_at = now])

(* A slip: the update does not stamp updated_at. *)
finalize_unstamped(updated_payload, description, now) ==
    ProductResponse([updated_payload EXCEPT !.description = description])

(* update_product: the record stored, given the resolved description. *)
finalize(updated_payload, description, now) ==
    ProductResponse([updated_payload EXCEPT !.description = description,
                                            !.updated_at = now])

----------------------------------------------------------------------------
(* The handlers. *)

(* What the model remembers of the run: the ids loaded at the last start, the
   ids create_product put in the map and delete_product took out of it since,
   the ids whose Create and whose Delete answered success, every id ever in
   the map, whether an id was handed out twice, the id and created_at that
   each Create assigned, and how many Writer handles this process has built. *)
Hist(loaded, inserted, removed, created_ok, deleted_ok, ever, reused, born) ==
    [loaded |-> loaded, inserted |-> inserted, removed |-> removed,
     created_ok |-> created_ok, deleted_ok |-> deleted_ok, ever |-> ever,
     reused |-> reused, born |-> born, built |-> 0]

NoGeneration(description) ==
    [status |-> 0, detail |-> <<>>, description |-> description, client |-> writer_client,
     built |-> FALSE, provider |-> 0, prompt |-> <<>>]

create_asks_provider(request) ==
    needs_generation(request) /\ ~get_writer_client(writer_client, api_key).raised

create_saves(request, outcome) ==
    needs_generation(request) =>
        generate_product_description(ProductBrief(request), writer_client, api_key,
                                     outcome).status = 0

(* POST /api/products/generate *)
generate_description_endpoint(request, outcome) ==
    LET g == generate_product_description(request, writer_client, api_key, outcome)
    IN  /\ nops < MaxOps
        /\ nops' = nops + 1
        /\ Asked(~get_writer_client(writer_client, api_key).raised, outcome, NoCall)
        /\ writer_client' = g.client
        /\ hist' = [hist EXCEPT !.built = @ + (IF g.built THEN 1 ELSE 0)]
        /\ last' = Response("generate", None, IF g.status = 0 THEN 200 ELSE g.status,
                            1, g.provider, "none", request, <<>>,
                            Generation(request, outcome, g))
        /\ UNCHANGED <<products_db, file, api_key, clock, uuid_count, tasks>>

(* POST /api/products *)
create_product(request, outcome, io, tick) ==
    LET brief == ProductBrief(request)
        gen == needs_generation(request)
        g == IF gen
             THEN generate_product_description(brief, writer_client, api_key, outcome)
             ELSE NoGeneration(request.description)
        product_id == uuid4
        product == new_product(brief, g.description, product_id, utcnow(tick))
        db2 == Put(products_db, product_id, serialize_product(product))
        sv == save_products(db2, file, io)
        ncalls == IF gen THEN 1 ELSE 0
        trace == IF gen THEN Generation(brief, outcome, g) ELSE NotGenerated
    IN  /\ nops < MaxOps
        /\ nops' = nops + 1
        /\ Asked(create_asks_provider(request), outcome, NoCall)
        /\ Asked(g.status = 0, io, "none")
        /\ writer_client' = g.client
        /\ UNCHANGED <<api_key, tasks>>
        /\ IF g.status # 0
           THEN /\ UNCHANGED <<products_db, file, clock, uuid_count>>
                /\ hist' = [hist EXCEPT !.built = @ + (IF g.built THEN 1 ELSE 0)]
                /\ last' = Response("create", None, g.status, ncalls, g.provider, io,
                                    request, <<>>, trace)
           ELSE /\ products_db' = db2
                /\ file' = sv.file
                /\ clock' = clock + tick
                /\ uuid_count' = uuid_count + 1
                /\ last' = Response("create", product_id,
                                    IF sv.raised THEN 500 ELSE 201, ncalls, g.provider, io,
                                    request, <<>>, trace)
                /\ hist' = [hist EXCEPT
                        !.built = @ + (IF g.built THEN 1 ELSE 0),
                        !.inserted = @ \cup {product_id},
                        !.created_ok = IF sv.raised THEN @ ELSE @ \cup {product_id},
                        !.ever = @ \cup {product_id},
                        !.reused = @ \/ product_id \in hist.ever,
                        !.born = @ \cup {<<product_id, isoformat(utcnow(tick))>>}]

(* GET /api/products *)
list_products_endpoint ==
    /\ nops < MaxOps
    /\ nops' = nops + 1
    /\ last' = Response("list", None, 200, 0, 0, "none", EmptyDict, <<>>, NotGenerated)
    /\ UNCHANGED <<products_db, file, writer_client, api_key, clock, uuid_count, hist, tasks>>

(* GET /api/products/{product_id} *)
get_product(product_id) ==
    /\ nops < MaxOps
    /\ nops' = nops + 1
    /\ last' = Response("read", product_id,
                        get_product_or_404(products_db, product_id).status,
                        0, 0, "none", EmptyDict, Lookup(products_db, product_id),
                        NotGenerated)
    /\ UNCHANGED <<products_db, file, writer_client, api_key, clock, uuid_count, hist, tasks>>

update_generates(product_id, request) ==
    /\ get_product_or_404(products_db, product_id).status = 200
    /\ description_source(without_regenerate(request), pop_regenerate(request)) = "generate"

update_asks_provider(product_id, request) ==
    update_generates(product_id, request)
        /\ ~get_writer_client(writer_client, api_key).raised

update_saves(product_id, request, outcome) ==
    /\ get_product_or_404(products_db, product_id).status = 200
    /\ update_generates(product_id, request) =>
            generate_product_description(
                regeneration_brief(
                    get_product_or_404(products_db, product_id).product,
                    merge_fields(get_product_or_404(products_db, product_id).product,
                                 without_regenerate(request))),
                writer_client, api_key, outcome).status = 0

(* PUT /api/products/{product_id} *)
update_product(product_id, body, outcome, io, tick) ==
    LET request == ProductUpdateRequest(body)
        found == get_product_or_404(products_db, product_id)
        existing == found.product
        regenerate == pop_regenerate(request)
        update_data == without_regenerate(request)
        updated_payload == merge_fields(existing, update_data)
        source == description_source(update_data, regenerate)
        gen == update_generates(product_id, request)
        g == IF gen
             THEN generate_product_description(regeneration_brief(existing, updated_payload),
                                               writer_client, api_key, outcome)
             ELSE NoGeneration(None)
        description ==
            CASE source = "explicit" -> strip(update_data["description"])
              [] source = "generate" -> g.description
              [] OTHER -> strip(updated_payload.description)
        product == finalize(updated_payload, description, utcnow(tick))
        db2 == Put(products_db, product_id, serialize_product(product))
        sv == save_products(db2, file, io)
        ncalls == IF gen THEN 1 ELSE 0
        answer(status) ==
            Response("update", product_id, status, ncalls, g.provider, io,
                     body, Lookup(products_db, product_id),
                     IF gen
                     THEN Generation(regeneration_brief(existing, updated_payload), outcome, g)
                     ELSE NotGenerated)
    IN  /\ nops < MaxOps
        /\ nops' = nops + 1
        /\ Asked(update_asks_provider(product_id, request), outcome, NoCall)
        /\ Asked(found.status = 200 /\ g.status = 0, io, "none")
        /\ writer_client' = g.client
        /\ hist' = [hist EXCEPT !.built = @ + (IF g.built THEN 1 ELSE 0)]
        /\ UNCHANGED <<api_key, uuid_count, tasks>>
        /\ IF found.status # 200
           THEN /\ UNCHANGED <<products_db, file, clock>>
                /\ last' = answer(found.status)
           ELSE IF g.status # 0
           THEN /\ products_db' = map_during_update(products_db, product_id, updated_payload)
                /\ UNCHANGED <<file, clock>>
                /\ last' = answer(g.status)
           ELSE /\ products_db' = db2
                /\ file' = sv.file
                /\ clock' = clock + tick
                /\ last' = answer(IF sv.raised THEN 500 ELSE 200)

(* DELETE /api/products/{product_id} *)
delete_product(product_id, io) ==
    LET db2 == Del(products_db, product_id)
        sv == save_products(db2, file, io)
        answer(status) ==
            Response("delete", product_id, status, 0, 0, io, EmptyDict,
                     Lookup(products_db, product_id), NotGenerated)
    IN  /\ nops < MaxOps
        /\ nops' = nops + 1
        /\ Asked(product_id \in Keys(products_db), io, "none")
        /\ UNCHANGED <<writer_client, api_key, clock, uuid_count, tasks>>
        /\ IF product_id \notin Keys(products_db)
           THEN /\ UNCHANGED <<products_db, file, hist>>
                /\ last' = answer(404)
           ELSE /\ products_db' = db2
                /\ file' = sv.file
                /\ last' = answer(IF sv.raised THEN 500 ELSE 204)
                /\ hist' = [hist EXCEPT
                        !.removed = @ \cup {product_id},
                        !.deleted_ok = IF sv.raised THEN @ ELSE @ \cup {product_id}]

Started == Response("start", None, 0, 0, 0, "none", EmptyDict, <<>>, NotGenerated)
(* The import of main.py raised at line 215: there is no process. *)
Crashed == Response("crash", None, 0, 0, 0, "none", EmptyDict, <<>>, NotGenerated)
(* The process is not running. *)
Stopped == Response("stop", None, 0, 0, 0, "none", EmptyDict, <<>>, NotGenerated)

(* Requests are handled while the process is up. *)
Serving == last.op \notin {"crash", "stop"}

(* The process ends and starts again: main.py:35 and main.py:215 run anew. *)
Restart(key) ==
    /\ nops < MaxOps
    /\ nops' = nops + 1
    /\ products_db' = load_products(file)
    /\ writer_client' = None
    /\ api_key' = key
    /\ last' = IF load_raises(file) THEN Crashed ELSE Started
    /\ hist' = [hist EXCEPT !.loaded = Keys(load_products(file)),
                            !.inserted = {}, !.removed = {},
                            !.ever = @ \cup Keys(load_products(file)),
                            !.built = 0]
    /\ UNCHANGED <<file, clock, uuid_count, tasks>>

----------------------------------------------------------------------------
(* The handlers as coroutines on the event loop of uvicorn.run(app): a
   request in flight is a task with its place in the handler and its locals.
   The loop runs one task at a time and takes up another only when the one
   it runs awaits or returns. *)

Task(op, id, body) ==
    [op |-> op, id |-> id, body |-> body, pc |-> "entry", existing |-> <<>>,
     description |-> None, gen |-> 0, provider |-> 0, generation |-> NotGenerated]

task_generates(task) ==
    /\ task.op = "update"
    /\ description_source(without_regenerate(ProductUpdateRequest(task.body)),
                          pop_regenerate(ProductUpdateRequest(task.body))) = "generate"

(* A slip: the provider is called with await, so the task is suspended with
   its merged copy in hand while the provider answers. *)
awaits_provider(task) == task.pc = "merged" /\ task_generates(task)

(* Whether the task is suspended where it stands: no handler of main.py has
   an await, and client.chat.chat is a blocking call. *)
awaits(task) == FALSE

LoopIdle == \A j \in 1..Len(tasks) : tasks[j].pc = "entry" \/ awaits(tasks[j])
OnLoop(i) == \A j \in 1..Len(tasks) : j # i => tasks[j].pc = "entry" \/ awaits(tasks[j])

Without(ts, i) == SubSeq(ts, 1, i - 1) \o SubSeq(ts, i + 1, Len(ts))

task_answer(task, id, status, io, before) ==
    Response(task.op, id, status, task.gen, task.provider, io, task.body, before,
             task.generation)

(* The loop takes a request and makes the task of its handler. *)
accept(task) ==
    /\ nops < MaxOps
    /\ LoopIdle
    /\ nops' = nops + 1
    /\ tasks' = Append(tasks, task)
    /\ UNCHANGED <<products_db, file, writer_client, api_key, clock, uuid_count, last, hist>>

(* create_product, lines 253-258: the description is resolved. *)
create_describe(i, outcome) ==
    LET task == tasks[i]
        request == task.body
        brief == ProductBrief(request)
        gen == needs_generation(request)
        g == IF gen
             THEN generate_product_description(brief, writer_client, api_key, outcome)
             ELSE NoGeneration(request.description)
        ran == [task EXCEPT !.pc = "resolved", !.description = g.description,
                            !.gen = IF gen THEN 1 ELSE 0, !.provider = g.provider,
                            !.generation = IF gen THEN Generation(brief, outcome, g)
                                           ELSE NotGenerated]
    IN  /\ task.op = "create" /\ task.pc = "entry"
        /\ Asked(create_asks_provider(request), outcome, NoCall)
        /\ writer_client' = g.client
        /\ hist' = [hist EXCEPT !.built = @ + (IF g.built THEN 1 ELSE 0)]
        /\ IF g.status # 0
           THEN /\ tasks' = Without(tasks, i)
                /\ last' = task_answer(ran, None, g.status, "none", <<>>)
           ELSE /\ tasks' = [tasks EXCEPT ![i] = ran]
                /\ UNCHANGED last
        /\ UNCHANGED <<products_db, file, api_key, clock, uuid_count, nops>>

(* create_product, lines 260-272: the record is built, stored and saved. *)
create_store(i, io, tick) ==
    LET task == tasks[i]
        product_id == uuid4
        product == new_product(ProductBrief(task.body), task.description, product_id,
                               utcnow(tick))
        db2 == Put(products_db, product_id, serialize_product(product))
        sv == save_products(db2, file, io)
    IN  /\ task.op = "create" /\ task.pc = "resolved"
        /\ products_db' = db2
        /\ file' = sv.file
        /\ clock' = clock + tick
        /\ uuid_count' = uuid_count + 1
        /\ tasks' = Without(tasks, i)
        /\ last' = task_answer(task, product_id, IF sv.raised THEN 500 ELSE 201, io, <<>>)
        /\ hist' = [hist EXCEPT
                !.inserted = @ \cup {product_id},
                !.created_ok = IF sv.raised THEN @ ELSE @ \cup {product_id},
                !.ever = @ \cup {product_id},
                !.reused = @ \/ product_id \in hist.ever,
                !.born = @ \cup {<<product_id, isoformat(utcnow(tick))>>}]
        /\ UNCHANGED <<writer_client, api_key, nops>>

(* update_product, line 287: the stored record is read, or the request ends 404. *)
update_lookup(i) ==
    LET task == tasks[i]
        found == get_product_or_404(products_db, task.id)
    IN  /\ task.op = "update" /\ task.pc = "entry"
        /\ IF found.status # 200
           THEN /\ tasks' = Without(tasks, i)
                /\ last' = task_answer(task, task.id, found.status, "none", <<>>)
           ELSE /\ tasks' = [tasks EXCEPT ![i].pc = "merged",
                                          ![i].existing = <<found.product>>]
                /\ UNCHANGED last
        /\ UNCHANGED <<products_db, file, writer_client, api_key, clock, uuid_count,
                       nops, hist>>

(* update_product, lines 288-313: the body is merged over the copy of the
   record read at line 287 and the description is resolved. *)
update_describe(i, outcome) ==
    LET task == tasks[i]
        request == ProductUpdateRequest(task.body)
        existing == task.existing[1]
        regenerate == pop_regenerate(request)
        update_data == without_regenerate(request)
        updated_payload == merge_fields(existing, update_data)
        source == description_source(update_data, regenerate)
        gen == source = "generate"
        brief == regeneration_brief(existing, updated_payload)
        g == IF gen
             THEN generate_product_description(brief, writer_client, api_key, outcome)
             ELSE NoGeneration(None)
        description ==
            CASE source = "explicit" -> strip(update_data["description"])
              [] source = "generate" -> g.description
              [] OTHER -> strip(updated_payload.description)
        ran == [task EXCEPT !.pc = "resolved", !.description = description,
                            !.gen = IF gen THEN 1 ELSE 0, !.provider = g.provider,
                            !.generation = IF gen THEN Generation(brief, outcome, g)
                                           ELSE NotGenerated]
    IN  /\ task.op = "update" /\ task.pc = "merged"
        /\ Asked(gen /\ ~get_writer_client(writer_client, api_key).raised, outcome, NoCall)
        /\ writer_client' = g.client
        /\ hist' = [hist EXCEPT !.built = @ + (IF g.built THEN 1 ELSE 0)]
        /\ IF g.status # 0
           THEN /\ tasks' = Without(tasks, i)
                /\ last' = task_answer(ran, task.id, g.status, "none",
                                       Lookup(products_db, task.id))
           ELSE /\ tasks' = [tasks EXCEPT ![i] = ran]
                /\ UNCHANGED last
        /\ UNCHANGED <<products_db, file, api_key, clock, uuid_count, nops>>

(* update_product, lines 315-321: the merged copy is stamped, stored and saved. *)
update_store(i, io, tick) ==
    LET task == tasks[i]
        request == ProductUpdateRequest(task.body)
        updated_payload == merge_fields(task.existing[1], without_regenerate(request))
        product == finalize(updated_payload, task.description, utcnow(tick))
        db2 == Put(products_db, task.id, serialize_product(product))
        sv == save_products(db2, file, io)
    IN  /\ task.op = "update" /\ task.pc = "resolved"
        /\ products_db' = db2
        /\ file' = sv.file
        /\ clock' = clock + tick
        /\ tasks' = Without(tasks, i)
        /\ last' = task_answer(task, task.id, IF sv.raised THEN 500 ELSE 200, io,
                               Lookup(products_db, task.id))
        /\ UNCHANGED <<writer_client, api_key, uuid_count, nops, hist>>

(* delete_product, lines 326-327: the id is looked up, or the request ends 404. *)
delete_check(i) ==
    LET task == tasks[i]
    IN  /\ task.op = "delete" /\ task.pc = "entry"
        /\ IF task.id \notin Keys(products_db)
           THEN /\ tasks' = Without(tasks, i)
                /\ last' = task_answer(task, task.id, 404, "none", <<>>)
           ELSE /\ tasks' = [tasks EXCEPT ![i].pc = "checked"]
                /\ UNCHANGED last
        /\ UNCHANGED <<products_db, file, writer_client, api_key, clock, uuid_count,
                       nops, hist>>

(* delete_product, lines 329-331: the entry is removed and the map saved. *)
delete_remove(i, io) ==
    LET task == tasks[i]
        db2 == Del(products_db, task.id)
        sv == save_products(db2, file, io)
    IN  /\ task.op = "delete" /\ task.pc = "checked"
        /\ task.id \in Keys(products_db)
        /\ products_db' = db2
        /\ file' = sv.file
        /\ tasks' = Without(tasks, i)
        /\ last' = task_answer(task, task.id, IF sv.raised THEN 500 ELSE 204, io,
                               Lookup(products_db, task.id))
        /\ hist' = [hist EXCEPT
                !.removed = @ \cup {task.id},
                !.deleted_ok = IF sv.raised THEN @ ELSE @ \cup {task.id}]
        /\ UNCHANGED <<writer_client, api_key, clock, uuid_count, nops>>

----------------------------------------------------------------------------
(* The inputs. *)

Blank == <<" ", " ">>
D1 == <<" ", "d", " ">>
D2 == <<"e", " ">>
G1 == <<"g", "\n">>

DefaultBrief(name) ==
    [name |-> name, category |-> None, brand |-> None, tagline |-> None,
     features |-> <<>>, seo_keywords |-> <<>>, tone |-> <<"balanced">>,
     audience |-> None, language |-> <<"English">>, additional_notes |-> None,
     length |-> <<"detailed">>]

(* The payload of test_product_crud. *)
TestBrief ==
    [name |-> <<"AuroraGlow Smart Lamp">>, category |-> <<"Home Lighting">>,
     brand |-> <<"Aurora">>, tagline |-> None,
     features |-> << <<"Adaptive brightness">>, <<"Voice assistant">> >>,
     seo_keywords |-> << <<"smart lamp">> >>, tone |-> <<"inspiring">>,
     audience |-> <<"Design-conscious homeowners">>, language |-> <<"English">>,
     additional_notes |-> None, length |-> <<"standard">>]

CreateRequest(brief, description, auto_generate) ==
    [f \in BriefFields \cup {"description", "auto_generate"} |->
        CASE f = "description" -> description
          [] f = "auto_generate" -> auto_generate
          [] OTHER -> brief[f]]

(* Create requests: the description absent, blank or given, with either flag. *)
CreateRequests ==
    {CreateRequest(DefaultBrief(<<"Lamp">>), d, a) : d \in {None, Blank, D1}, a \in BOOLEAN}

Regenerating(b) == b @@ Dict1("regenerate_description", PyTrue)

(* Update bodies that decide how the description is resolved. *)
UpdateBodies ==
    {EmptyDict,
     Dict1("tone", <<"luxurious">>),
     Dict1("name", <<>>),
     Dict1("description", D2),
     Dict1("description", Blank),
     Dict1("description", None)}

UpdateRequests ==
    UpdateBodies
        \cup {Regenerating(b) : b \in UpdateBodies}
        \cup {Dict1("regenerate_description", PyFalse), Dict1("regenerate_description", None),
              Regenerating(Dict1("category", None)),
              Regenerating(Dict1("length", <<"short">>) @@ Dict1("seo_keywords", None))}

(* Update bodies that set one Brief field: to null, to the empty value, to a
   new value; and some that set two, or a key the request model does not have. *)
NewValue(f) ==
    IF f \in {"features", "seo_keywords"}
    THEN << <<"Quiet night mode">>, <<"HEPA H13">> >>
    ELSE <<"new">>

MergeBodies ==
    {Dict1(f, v) : f \in BriefFields, v \in {None, <<>>}}
        \cup {Dict1(f, NewValue(f)) : f \in BriefFields}
        \cup {EmptyDict,
              Dict1("id", <<"zzz">>) @@ Dict1("created_at", <<"iso", 7>>),
              Dict1("tone", <<"luxurious">>) @@ Dict1("description", D2),
              Dict1("category", None) @@ Dict1("features", None),
              Regenerating(Dict1("category", None)),
              Regenerating(Dict1("length", <<"short">>) @@ Dict1("seo_keywords", None))}

(* The stores' lifecycle needs few kinds of request. *)
LifecycleCreates ==
    {CreateRequest(DefaultBrief(<<"Lamp">>), D1, FALSE),
     CreateRequest(DefaultBrief(<<"Lamp">>), None, TRUE)}

LifecycleUpdates ==
    {Dict1("tone", <<"luxurious">>),
     Dict1("description", D2),
     Dict1("id", <<"zzz">>),
     Dict1("regenerate_description", PyTrue)}

RateLimited == Raises(<<"R", "a", "t", "e", " ", "L", "i", "m", "i", "t">>)
InvalidKey == Raises(<<"b", "a", "d", " ", "A", "P", "I", "_", "K", "E", "Y">>)
TimedOut == Raises(<<"t", "i", "m", "e", "d", " ", "o", "u", "t">>)

(* Provider failures by message: the two substrings in either case, both at
   once, near misses of each, and no message at all. *)
ProviderFailures ==
    {RateLimited, InvalidKey, TimedOut,
     Raises(<<"a", "p", "i", "_", "k", "e", "y">>),
     Raises(<<"x", "r", "a", "t", "e", " ", "l", "i", "m", "i", "t", "s">>),
     Raises(<<"r", "a", "t", "e", " ", "l", "i", "m", "i", "t", " ", "A", "p", "i", "_", "K", "e", "y">>),
     Raises(<<"a", "p", "i", " ", "k", "e", "y">>),
     Raises(<<"r", "a", "t", "e", "_", "l", "i", "m", "i", "t">>),
     Raises(<<>>)}

ProviderCompletions ==
    {Completion(G1), Completion(<<" ">>), Completion(<<>>),
     Completion(<<"\n", " ", "g", " ", "h", "\t">>)}

(* Briefs by length: each profile, null, the empty string, strings that are
   no profile, and the payload of test_product_crud. *)
GenerateBriefs ==
    {[DefaultBrief(<<"Lamp">>) EXCEPT !.length = l] :
        l \in {<<"short">>, <<"standard">>, <<"detailed">>, None, <<>>,
               <<"epic">>, <<"Short">>}}
        \cup {TestBrief}

ProviderOutcomes == {Completion(G1), Completion(<<" ">>), RateLimited, InvalidKey, TimedOut}

UnknownId == <<"x">>
RequestIds == {Uuid(n) : n \in 1..uuid_count} \cup {UnknownId}

----------------------------------------------------------------------------
(* The specification. *)

(* The snapshot an earlier run of the service left: what save_products wrote
   after create_product stored the lamp of test_product_crud under the first
   id, at clock reading 0. *)
SeedFile ==
    FileList(<<serialize_product(
        new_product(TestBrief, <<"l", "i", "g", "h", "t">>, Uuid(1), <<"dt", 0>>))>>)

Init ==
    /\ file \in {FileMissing, SeedFile}
    /\ products_db = load_products(file)
    /\ writer_client = None
    /\ api_key \in BOOLEAN
    /\ clock = Len(products_db)
    /\ uuid_count = Len(products_db)
    /\ nops = 0
    /\ last = Started
    /\ hist = Hist(Keys(products_db), {}, {}, {}, {}, Keys(products_db), FALSE,
                   {<<products_db[i][1], products_db[i][2].created_at>> :
                        i \in 1..Len(products_db)})
    /\ tasks = <<>>

ProviderAnswers(asked, outcomes) == IF asked THEN outcomes ELSE {NoCall}
IoAnswers(asked, ios) == IF asked THEN ios ELSE {"none"}
Ticks(asked, ticks) == IF asked THEN ticks ELSE {0}

CreateWith(requests, outcomes, ios, ticks) ==
    /\ nops < MaxOps
    /\ Serving
    /\ \E request \in requests :
        \E outcome \in ProviderAnswers(create_asks_provider(request), outcomes) :
            \E io \in IoAnswers(create_saves(request, outcome), ios) :
                \E tick \in Ticks(create_saves(request, outcome), ticks) :
                    create_product(request, outcome, io, tick)

UpdateWith(bodies, outcomes, ios, ticks) ==
    /\ nops < MaxOps
    /\ Serving
    /\ \E product_id \in RequestIds, body \in bodies :
        \E outcome \in ProviderAnswers(
                update_asks_provider(product_id, ProductUpdateRequest(body)), outcomes) :
            \E io \in IoAnswers(
                    update_saves(product_id, ProductUpdateRequest(body), outcome), ios) :
                \E tick \in Ticks(
                        update_saves(product_id, ProductUpdateRequest(body), outcome), ticks) :
                    update_product(product_id, body, outcome, io, tick)

GenerateWith(briefs, outcomes) ==
    /\ nops < MaxOps
    /\ Serving
    /\ \E request \in briefs :
        \E outcome \in ProviderAnswers(~get_writer_client(writer_client, api_key).raised,
                                       outcomes) :
            generate_description_endpoint(request, outcome)

(* The lifecycle of the store: every operation, the file system and the
   provider failing or not, the clock advancing or not. *)
Create == CreateWith(LifecycleCreates, {Completion(G1), RateLimited}, IoOutcomes, {0, 1})

Read == nops < MaxOps /\ Serving /\ \E product_id \in RequestIds : get_product(product_id)

List == Serving /\ list_products_endpoint

Update == UpdateWith(LifecycleUpdates, {Completion(G1), RateLimited}, IoOutcomes, {0, 1})

Delete ==
    /\ nops < MaxOps
    /\ Serving
    /\ \E product_id \in RequestIds :
        \E io \in IoAnswers(product_id \in Keys(products_db), IoOutcomes) :
            delete_product(product_id, io)

Start == \E key \in BOOLEAN : Restart(key)

GenerateLamp == GenerateWith({DefaultBrief(<<"Lamp">>)}, {Completion(G1), RateLimited})

Next == Create \/ Read \/ List \/ Update \/ Delete \/ GenerateLamp \/ Start

Spec == Init /\ [][Next]_vars

(* The generation endpoint alone: every brief, the provider answering in
   every way, the process starting with and without a credential. *)
Generate == GenerateWith(GenerateBriefs, ProviderFailures \cup ProviderCompletions)

NextGenerate == Generate \/ Start

(* The start of the process on whatever DATA_FILE holds: arrays of up to
   MaxItems elements that are products, objects with an id only, with an
   empty, null, missing or unhashable id, a repeated id, and elements that
   are not objects. *)
SeedProduct ==
    serialize_product(new_product(TestBrief, <<"l", "i", "g", "h", "t">>, Uuid(1), <<"dt", 0>>))

LoadItems ==
    {SeedProduct,
     [id |-> Uuid(2)],
     [id |-> Uuid(1), name |-> <<"Lamp">>],
     [id |-> <<>>],
     [id |-> None],
     [name |-> <<"Lamp">>],
     [id |-> Unhashable],
     NotADict(<<"Lamp">>),
     NotADict(None)}

RECURSIVE ListsOf(_, _)
ListsOf(items, n) ==
    IF n = 0 THEN {<<>>}
    ELSE ListsOf(items, n - 1)
            \cup {Append(l, item) : l \in {k \in ListsOf(items, n - 1) : Len(k) = n - 1},
                                    item \in items}

LoadFiles ==
    {FileMissing, FileUnreadable, FileNotUtf8, FileCorrupt, FileObject}
        \cup {FileList(items) : items \in ListsOf(LoadItems, MaxItems)}

InitLoad ==
    /\ file \in LoadFiles
    /\ products_db = <<>>
    /\ writer_client = None
    /\ api_key \in BOOLEAN
    /\ clock = 0
    /\ uuid_count = 0
    /\ nops = 0
    /\ last = Stopped
    /\ hist = Hist({}, {}, {}, {}, {}, {}, FALSE, {})
    /\ tasks = <<>>

NextLoad == Start

SpecLoad == InitLoad /\ [][NextLoad]_vars

(* Requests in flight together: the loop takes requests while it is idle and
   runs the task of each; the file system works and the clock advances. *)
ConcurrentTasks ==
    {Task("create", None, CreateRequest(DefaultBrief(<<"Lamp">>), D1, FALSE))}
        \cup {Task("update", product_id, body) :
                product_id \in RequestIds,
                body \in {Dict1("tone", <<"luxurious">>),
                          Dict1("category", <<"Decor">>),
                          Dict1("regenerate_description", PyTrue)}}
        \cup {Task("delete", product_id, EmptyDict) : product_id \in RequestIds}

Accept == nops < MaxOps /\ Serving /\ \E task \in ConcurrentTasks : accept(task)

RunCreate ==
    \E i \in 1..Len(tasks) :
        /\ OnLoop(i)
        /\ \/ \E outcome \in {NoCall, Completion(G1)} : create_describe(i, outcome)
           \/ create_store(i, "ok", 1)

RunUpdate ==
    \E i \in 1..Len(tasks) :
        /\ OnLoop(i)
        /\ \/ update_lookup(i)
           \/ \E outcome \in {NoCall, Completion(G1), RateLimited} : update_describe(i, outcome)
           \/ update_store(i, "ok", 1)

RunDelete ==
    \E i \in 1..Len(tasks) :
        /\ OnLoop(i)
        /\ \/ delete_check(i)
           \/ delete_remove(i, "ok")

NextConcurrent == Accept \/ RunCreate \/ RunUpdate \/ RunDelete

SpecConcurrent == Init /\ [][NextConcurrent]_vars

SpecGenerate == Init /\ [][NextGenerate]_vars

(* Every kind of Create and Update request, the provider answering in every
   way, the file system working. *)
CreateAny == CreateWith(CreateRequests, ProviderOutcomes, {"ok"}, {1})

UpdateAny == UpdateWith(UpdateRequests, ProviderOutcomes, {"ok"}, {1})

NextRequests == CreateAny \/ UpdateAny

SpecRequests == Init /\ [][NextRequests]_vars

(* The merge of an Update body over a record: every field set, cleared or left. *)
CreateLamp ==
    CreateWith({CreateRequest(DefaultBrief(<<"Lamp">>), D1, FALSE)},
               {Completion(G1)}, {"ok"}, {1})

UpdateMerge == UpdateWith(MergeBodies, {Completion(G1)}, {"ok"}, {1})

NextMerge == CreateLamp \/ UpdateMerge

SpecMerge == Init /\ [][NextMerge]_vars

----------------------------------------------------------------------------
(* The claims. *)

StoredRecords == {products_db[i][2] : i \in 1..Len(products_db)}
SavedRecords == IF file[1] = "list" THEN {file[2][i] : i \in 1..Len(file[2])} ELSE {}

NonBlank(description) == Truthy(description) /\ Truthy(strip(description))

(* C1: in every state reachable by Create and Update requests, no product in
   the in-memory map or in the saved snapshot has a description that is empty
   after trimming.  The code breaks it: an Update with an explicit blank
   description stores the empty string. *)
C1_DescriptionNeverBlank ==
    \A product \in StoredRecords \cup SavedRecords : NonBlank(product.description)

(* C2: a Create with auto_generate false and a description that is not blank
   never calls the generation client, succeeds whether or not a credential is
   configured, and stores the trimmed description; every other Create calls
   the generation client exactly once. *)
C2_CreateGeneratesWhenNeeded ==
    last.op = "create" =>
        IF ~last.request.auto_generate /\ NonBlank(last.request.description)
        THEN /\ last.gen = 0
             /\ last.provider = 0
             /\ last.status = 201
             /\ Get(products_db, last.id).description = strip(last.request.description)
             /\ Get(load_products(file), last.id).description
                    = strip(last.request.description)
        ELSE last.gen = 1

C2_Witness ==
    /\ last.op = "create"
    /\ ~last.request.auto_generate
    /\ NonBlank(last.request.description)
    /\ last.request.description # strip(last.request.description)
    /\ ~api_key
    /\ last.status = 201

ExplicitDescription ==
    /\ last.op = "update"
    /\ Len(last.before) = 1
    /\ "description" \in DOMAIN last.request
    /\ last.request["description"] # None

(* C3: an Update of an existing id whose body gives a description that is not
   null never calls the generation client, whatever regenerate_description
   is, and the description stored is the trimmed one of the body. *)
C3_ExplicitDescriptionWins ==
    ExplicitDescription =>
        /\ last.gen = 0
        /\ last.provider = 0
        /\ last.status = 200
        /\ Get(products_db, last.id).description = strip(last.request["description"])
        /\ Get(load_products(file), last.id).description
                = strip(last.request["description"])

C3_Witness ==
    /\ ExplicitDescription
    /\ "regenerate_description" \in DOMAIN last.request
    /\ last.request["regenerate_description"] = PyTrue
    /\ last.request["description"] # strip(last.request["description"])
    /\ last.status = 200

UpdateSucceeded == last.op = "update" /\ last.status = 200

(* C4: after a successful Update, a Brief field the body omits is as before;
   a clearable scalar field the body sets to null is None; features or
   seo_keywords set to null is the empty list; a field set to a value that
   is not null has that value; and id and created_at are as before. *)
C4_MergePerField ==
    UpdateSucceeded =>
        LET before == last.before[1]
            after == Get(products_db, last.id)
            body == last.request
        IN  /\ \A f \in BriefFields :
                IF f \notin DOMAIN body THEN after[f] = before[f]
                ELSE IF body[f] # None THEN after[f] = body[f]
                ELSE IF f \in {"category", "brand", "tagline", "audience",
                               "additional_notes", "tone", "language", "length"}
                THEN after[f] = None
                ELSE f \in {"features", "seo_keywords"} => after[f] = <<>>
            /\ after.id = before.id
            /\ after.created_at = before.created_at

C4_Witness ==
    /\ UpdateSucceeded
    /\ DOMAIN last.request = {"category", "features"}
    /\ last.request["category"] = None
    /\ last.request["features"] = None
    /\ last.before[1].category # None
    /\ last.before[1].features # <<>>
    /\ last.before[1].brand # None
    /\ Get(products_db, last.id).category = None
    /\ Get(products_db, last.id).features = <<>>

(* C5: an Update that sets name to the empty string is rejected as an invalid
   request and leaves the store as it was, and every product has a name that
   is not empty.  The code breaks it: the empty name is stored. *)
C5_EmptyNameRejected ==
    /\ (/\ last.op = "update"
        /\ Len(last.before) = 1
        /\ "name" \in DOMAIN last.request
        /\ last.request["name"] = <<>>)
            => /\ last.status \in {400, 422}
               /\ Lookup(products_db, last.id) = last.before
    /\ \A product \in StoredRecords : product.name # <<>>


ListedIds == {list_products(products_db)[i].id : i \in 1..Len(products_db)}
ReadableIds ==
    {k \in hist.ever \cup {UnknownId} : get_product_or_404(products_db, k).status = 200}
SavedIds == {product.id : product \in SavedRecords}

(* C6: the record under key k has id k, and every record has the id and the
   created_at that its Create assigned, whatever Updates were applied to it
   and whatever their bodies held. *)
C6_IdentityAndCreationKept ==
    /\ \A i \in 1..Len(products_db) : products_db[i][1] = products_db[i][2].id
    /\ \A product \in StoredRecords \cup SavedRecords :
        /\ <<product.id, product.created_at>> \in hist.born
        /\ \A pair \in hist.born : pair[1] = product.id => pair[2] = product.created_at

C6_Witness ==
    /\ UpdateSucceeded
    /\ "id" \in DOMAIN last.request
    /\ Get(products_db, last.id).updated_at # Get(products_db, last.id).created_at
    /\ Get(products_db, last.id).updated_at # last.before[1].updated_at

(* C7 as claimed: the ids Read finds, which are the ids List returns, are the
   ids loaded plus the ids of the Creates that answered success minus the ids
   of the Deletes that answered success.  A Create or Delete whose save fails
   answers an error and still changes the map. *)
C7_IdsOfSuccessfulRequests ==
    /\ ReadableIds = ListedIds
    /\ ListedIds = (hist.loaded \cup hist.created_ok) \ hist.deleted_ok

(* C7 amended: the ids Read finds, which are the ids List returns, are the
   ids loaded at the start plus the ids create_product put in the map minus
   the ids delete_product took out, whether or not the save that followed
   succeeded; no Create uses an id that was ever in the store; an id whose
   Delete succeeded is in neither the map nor the snapshot from then on, and
   every later Read, Update and Delete of it answers 404. *)
C7_IdsInsertedAndRemoved ==
    /\ ReadableIds = ListedIds
    /\ ListedIds = (hist.loaded \cup hist.inserted) \ hist.removed
    /\ ~hist.reused
    /\ hist.deleted_ok \cap (ListedIds \cup SavedIds) = {}
    /\ (last.op \in {"read", "update", "delete"} /\ last.id \in hist.deleted_ok) =>
            \/ last.status = 404
            \/ last.op = "delete" /\ last.status = 204 /\ Len(last.before) = 1

C7_Witness ==
    /\ last.op = "create"
    /\ last.status = 500
    /\ last.id \in ReadableIds \ hist.created_ok
    /\ hist.deleted_ok # {}
    /\ hist.deleted_ok \cap ReadableIds = {}

(* C8: a Read, Update or Delete of an id that is not in the map answers 404,
   changes neither the map nor the snapshot file nor the provider handle, and
   calls neither the generation client nor the provider. *)
C8_NotFoundChangesNothing ==
    [][(last'.op \in {"read", "update", "delete"} /\ last'.id \notin Keys(products_db)) =>
            /\ last'.status = 404
            /\ last'.gen = 0
            /\ last'.provider = 0
            /\ UNCHANGED <<products_db, file, writer_client>>]_vars

C8_Witness ==
    /\ last.op = "update"
    /\ last.status = 404
    /\ DOMAIN last.request = {"regenerate_description"}
    /\ last.request["regenerate_description"] = PyTrue
    /\ api_key
    /\ products_db # <<>>

CreateSucceeded == last.op = "create" /\ last.status = 201

(* C9 as claimed: a created product has created_at = updated_at, and every
   successful Update leaves created_at and sets updated_at strictly later
   than it was.  Two readings of the clock can be the same. *)
C9_UpdatedAtStrictlyLater ==
    /\ CreateSucceeded =>
            Get(products_db, last.id).created_at = Get(products_db, last.id).updated_at
    /\ UpdateSucceeded =>
            /\ Get(products_db, last.id).created_at = last.before[1].created_at
            /\ Instant(Get(products_db, last.id).updated_at)
                    > Instant(last.before[1].updated_at)

(* C9 amended: a created product has created_at = updated_at, and every
   successful Update, whatever its body, leaves created_at and sets updated_at
   to the reading of the clock taken in that Update, which is not earlier
   than the updated_at before as long as the clock is not set back. *)
C9_UpdatedAtIsClockReading ==
    /\ CreateSucceeded =>
            Get(products_db, last.id).created_at = Get(products_db, last.id).updated_at
    /\ UpdateSucceeded =>
            /\ Get(products_db, last.id).created_at = last.before[1].created_at
            /\ Get(products_db, last.id).updated_at = isoformat(<<"dt", clock>>)
            /\ Instant(Get(products_db, last.id).updated_at)
                    >= Instant(last.before[1].updated_at)

C9_Witness ==
    /\ UpdateSucceeded
    /\ "id" \in DOMAIN last.request
    /\ Get(products_db, last.id).updated_at = last.before[1].updated_at
    /\ Get(products_db, last.id).updated_at # Get(products_db, last.id).created_at

(* C10: when a Create, Update or Delete answers success, the snapshot file
   holds the records of the in-memory map, all of them and no others, in the
   map's order, whatever earlier saves did; a start from that file loads the
   same map. *)
C10_SnapshotIsTheMapOnSuccess ==
    (last.op \in {"create", "update", "delete"} /\ last.status \in {200, 201, 204}) =>
        /\ file = FileList(Values(products_db))
        /\ load_products(file) = products_db

C10_Witness ==
    /\ CreateSucceeded
    /\ hist.inserted # hist.created_ok
    /\ Len(products_db) > 1
    /\ load_products(file) = products_db

(* C11: save_products replaces the snapshot atomically: after every step the
   file is the complete snapshot it was before or the complete snapshot of
   the map just saved, never a part of one.  The code breaks it: open(..., "w")
   empties the file and json.dump writes into it piece by piece, so a write
   that fails part-way leaves a file that is not a JSON document. *)
C11_SaveIsAtomic ==
    [][\/ file' = file
       \/ file' = FileList(serialized_products(products_db'))]_vars

AnyCase(c) ==
    CASE c = "a" -> {"a", "A"} [] c = "p" -> {"p", "P"} [] c = "i" -> {"i", "I"}
      [] c = "k" -> {"k", "K"} [] c = "e" -> {"e", "E"} [] c = "y" -> {"y", "Y"}
      [] c = "r" -> {"r", "R"} [] c = "t" -> {"t", "T"} [] c = "l" -> {"l", "L"}
      [] c = "m" -> {"m", "M"} [] OTHER -> {c}

Mentions(word, message) ==
    \E i \in 0..(Len(message) - Len(word)) :
        \A j \in 1..Len(word) : message[i + j] \in AnyCase(word[j])

AllWhitespace(text) == \A i \in 1..Len(text) : text[i] \in Whitespace

(* C12: every call of the generation client ends in exactly one way.  With
   the handle unset and no credential it raises 503 without calling the
   provider.  Otherwise the provider is called once, and: a failure whose
   message holds "api_key" in any case gives 401; else one whose message
   holds "rate limit" in any case gives 429; else any failure gives 500 with
   the provider's message in the detail; a completion that is blank after
   trimming gives 500; any other completion is returned trimmed. *)
C12_FailuresClassified ==
    [][last'.gen = 1 =>
        LET t == last'.generation
            message == t.outcome.text
        IN  IF writer_client = None /\ ~api_key
            THEN t.status = 503 /\ last'.provider = 0 /\ t.outcome = NoCall
            ELSE /\ last'.provider = 1
                 /\ t.outcome # NoCall
                 /\ IF t.outcome.kind = "raise"
                    THEN IF Mentions(<<"a", "p", "i", "_", "k", "e", "y">>, message)
                         THEN t.status = 401
                         ELSE IF Mentions(<<"r", "a", "t", "e", " ", "l", "i", "m", "i", "t">>,
                                          message)
                         THEN t.status = 429
                         ELSE /\ t.status = 500
                              /\ Len(t.detail) = Len(message) + 1
                              /\ SubSeq(t.detail, 2, Len(t.detail)) = message
                    ELSE IF AllWhitespace(message)
                    THEN t.status = 500 /\ t.description = None
                    ELSE /\ t.status = 0
                         /\ ~AllWhitespace(t.description)
                         /\ t.description[1] \notin Whitespace
                         /\ t.description[Len(t.description)] \notin Whitespace
                         /\ \E i, j \in 0..Len(message) :
                                /\ i + j + Len(t.description) = Len(message)
                                /\ SubSeq(message, i + 1, i + Len(t.description))
                                        = t.description
                                /\ AllWhitespace(SubSeq(message, 1, i))
                                /\ AllWhitespace(SubSeq(message, Len(message) - j + 1,
                                                        Len(message)))]_vars

C12_Witness ==
    /\ last.op = "generate"
    /\ last.generation.outcome = InvalidKey
    /\ last.status = 401
    /\ last.provider = 1
    /\ writer_client # None

LengthOf(brief) == brief.length

(* C13: the prompt and the token budget sent to the provider depend on the
   brief alone: the budget is 320 for length "short", 520 for "standard" and
   780 for "detailed", for null and for any other string; a request to the
   generation endpoint changes neither the store nor the brief; and two
   requests in a row with the same brief send the same prompt and budget,
   whatever the provider answered in between. *)
C13_PromptBudget ==
    [][(last'.op = "generate" /\ last'.generation.prompt # <<>>) =>
        LET brief == last'.generation.brief[1]
            sent == last'.generation.prompt[1]
        IN  /\ brief = last'.request
            /\ sent[2] = CASE LengthOf(brief) = <<"short">> -> 320
                           [] LengthOf(brief) = <<"standard">> -> 520
                           [] OTHER -> 780
            /\ UNCHANGED <<products_db, file, api_key, clock, uuid_count>>
            /\ (last.op = "generate" /\ last.generation.brief = last'.generation.brief
                    /\ last.generation.prompt # <<>>)
                  => last'.generation.prompt = last.generation.prompt]_vars

C13_Witness ==
    /\ last.op = "generate"
    /\ last.generation.brief[1].length = <<"epic">>
    /\ last.generation.prompt # <<>>
    /\ last.generation.prompt[1][2] = 780
    /\ last.status = 200
    /\ nops = 2

(* The map read back from the file that a save of map m writes. *)
RoundTrip(m) == load_products(save_products(m, FileMissing, "ok").file)

(* The map m with each record as the ProductResponse the handlers hold. *)
Typed(m) == [i \in 1..Len(m) |-> <<m[i][1], ProductResponse(m[i][2])>>]

(* C14: for the map m of every reachable state, the file a save of m writes
   loads as a map with the same ids in the same order whose records have
   the fields of m's records with the same values: the timestamps are ISO
   strings that parse to the instants of m's, an empty features or
   seo_keywords is there and is the empty list, and serialize_product of the
   parsed record is the record.  The same holds of a map whose timestamps
   are datetimes, and of the file on disk after a request that succeeded. *)
C14_RoundTripLossless ==
    LET m == products_db
        SameRecords(back) ==
            /\ Len(back) = Len(m)
            /\ \A i \in 1..Len(m) :
                /\ back[i][1] = m[i][1]
                /\ DOMAIN back[i][2] = DOMAIN m[i][2]
                /\ \A f \in DOMAIN m[i][2] : back[i][2][f] = m[i][2][f]
                /\ \A f \in {"features", "seo_keywords"} :
                        m[i][2][f] = <<>> => f \in DOMAIN back[i][2] /\ back[i][2][f] = <<>>
                /\ \A f \in {"created_at", "updated_at"} :
                        /\ back[i][2][f][1] = "iso"
                        /\ Instant(ProductResponse(back[i][2])[f]) = Instant(m[i][2][f])
                /\ serialize_product(ProductResponse(back[i][2])) = m[i][2]
    IN  /\ SameRecords(RoundTrip(m))
        /\ SameRecords(RoundTrip(Typed(m)))
        /\ (last.op \in {"create", "update", "delete"} /\ last.status \in {200, 201, 204})
                => SameRecords(load_products(file))

C14_Witness ==
    /\ Len(products_db) = 2
    /\ products_db[1][2].features # <<>>
    /\ products_db[2][2].features = <<>>
    /\ products_db[2][2].seo_keywords = <<>>
    /\ products_db[1][2].created_at # products_db[2][2].created_at
    /\ last.status = 201
    /\ RoundTrip(products_db) = products_db

WellFormed(f) ==
    /\ f[1] = "list"
    /\ \A i \in 1..Len(f[2]) :
        /\ item_is_dict(f[2][i])
        /\ "id" \in DOMAIN f[2][i]
        /\ f[2][i]["id"] \notin {None, <<>>}

(* C15: the load at the start of the process never raises; the map is not
   empty only when the file is a JSON array whose every element is an
   object with an id that is not empty, and it is empty when the file is
   absent, unreadable, not JSON, not an array, or an array with an element
   that is not such an object.  The code breaks it: it raises on bytes that
   are not UTF-8 and on an id that cannot be a dict key, and it keeps the
   good elements of an array that has bad ones. *)
C15_LoadNeverRaisesAllOrNothing ==
    /\ last.op # "crash"
    /\ last.op = "start" => (products_db # <<>> => WellFormed(file))

UpdateFound == last.op = "update" /\ Len(last.before) = 1

NoExplicitDescription ==
    "description" \notin DOMAIN last.request \/ last.request["description"] = None

RegenerateIsTrue ==
    /\ "regenerate_description" \in DOMAIN last.request
    /\ last.request["regenerate_description"] = PyTrue

(* The value of Brief field f after the body is merged over the record before. *)
PostMerge(before, body, f) ==
    IF f \notin DOMAIN body THEN before[f]
    ELSE IF body[f] # None THEN body[f]
    ELSE IF f \in {"category", "brand", "tagline", "audience", "additional_notes",
                   "tone", "language", "length"} THEN None
    ELSE IF f \in {"features", "seo_keywords"} THEN <<>>
    ELSE before[f]

(* C17: an Update of a stored product whose body has no description, or a
   null one, and regenerate_description true calls the generation client
   once, with the brief of the record after the merge (a field the body
   replaces, clears or resets has its new value); when the Update succeeds
   the text the client returned is the stored description.  With
   regenerate_description false, null or omitted the generation client is
   not called and a successful Update leaves the stored description. *)
C17_RegenerateFromMergedBrief ==
    (UpdateFound /\ NoExplicitDescription) =>
        IF RegenerateIsTrue
        THEN /\ last.gen = 1
             /\ last.provider <= 1
             /\ last.generation.brief =
                    <<[f \in BriefFields |-> PostMerge(last.before[1], last.request, f)]>>
             /\ last.status = 200 =>
                    /\ last.provider = 1
                    /\ last.generation.outcome.kind = "completion"
                    /\ Get(products_db, last.id).description = last.generation.description
        ELSE /\ last.gen = 0
             /\ last.provider = 0
             /\ last.generation = NotGenerated
             /\ last.status = 200 =>
                    Get(products_db, last.id).description = last.before[1].description

C17_Witness ==
    /\ UpdateSucceeded
    /\ RegenerateIsTrue
    /\ DOMAIN last.request = {"category", "regenerate_description"}
    /\ last.request["category"] = None
    /\ last.before[1].category # None
    /\ last.generation.brief[1].category = None
    /\ Get(products_db, last.id).description = <<"g">>
    /\ Get(products_db, last.id).description # last.before[1].description

(* C18: when the generation client raises during a Create or an Update, the
   request answers with the status the client raised (503 without a
   credential, 401, 429 or 500 by the provider's failure, 500 for a blank
   completion), nothing is saved, and the map and the snapshot file are as
   they were: no product is added and the stored product has none of the
   body's fields and its updated_at as before. *)
C18_GenerationFailureChangesNothing ==
    [][(last'.op \in {"create", "update"} /\ last'.gen = 1 /\ last'.generation.status # 0) =>
        /\ last'.status = last'.generation.status
        /\ last'.status =
              IF writer_client = None /\ ~api_key THEN 503
              ELSE CASE last'.generation.outcome = InvalidKey -> 401
                     [] last'.generation.outcome = RateLimited -> 429
                     [] OTHER -> 500
        /\ last'.io = "none"
        /\ UNCHANGED <<products_db, file>>]_vars

C18_Witness ==
    /\ last.op = "update"
    /\ last.status = 429
    /\ last.gen = 1
    /\ DOMAIN last.request = {"tone", "regenerate_description"}
    /\ last.before[1].tone # last.request["tone"]
    /\ Lookup(products_db, last.id) = last.before
    /\ file = FileList(Values(products_db))
    /\ writer_client # None

(* C19: when save_products raises in a Create, Update or Delete, the request
   answers 500, the file is what it was or is not a snapshot at all, and the
   map keeps the change: the created product is in it, the deleted one is
   not, the updated one has the body's values and the new updated_at.  A
   later Read finds exactly the ids loaded or inserted and not removed,
   whether or not their save succeeded. *)
C19_SaveFailureKeepsTheChange ==
    [][/\ last'.io \in {"open_fails", "write_fails"} =>
            /\ last'.op \in {"create", "update", "delete"}
            /\ last'.status = 500
            /\ file' = file \/ file'[1] # "list"
            /\ last'.op = "create" =>
                    /\ last'.id \notin Keys(products_db)
                    /\ Keys(products_db') = Keys(products_db) \cup {last'.id}
            /\ last'.op = "delete" =>
                    /\ last'.id \in Keys(products_db)
                    /\ Keys(products_db') = Keys(products_db) \ {last'.id}
            /\ last'.op = "update" =>
                    /\ Keys(products_db') = Keys(products_db)
                    /\ Get(products_db', last'.id).updated_at = isoformat(<<"dt", clock'>>)
                    /\ \A f \in DOMAIN last'.request \cap (BriefFields \cup {"description"}) :
                            last'.request[f] # None =>
                                Get(products_db', last'.id)[f]
                                    = IF f = "description" THEN <<"e">> ELSE last'.request[f]
       /\ last'.op = "read" =>
            (last'.status = 200 <=>
                last'.id \in (hist.loaded \cup hist.inserted) \ hist.removed)]_vars

C19_Witness ==
    /\ last.op = "read"
    /\ last.status = 200
    /\ last.id \in hist.inserted \ hist.created_ok
    /\ last.id \notin SavedIds
    /\ file = SeedFile
    /\ load_products(file) # products_db

(* C20: within one process the provider handle goes from unset to built and
   stays: a request that makes no generation call leaves it; a generation
   call with the handle built leaves it and builds nothing; one with the
   handle unset and a credential builds it, the only Writer the process
   builds; one with the handle unset and no credential answers 503 at that
   call and leaves the handle unset.  Only a new process starts unset. *)
C20_HandleBuiltOnce ==
    [][/\ last'.op \notin {"start", "crash"} =>
            /\ hist'.built <= 1
            /\ hist'.built = 1 <=> writer_client' # None
            /\ last'.gen = 0 => writer_client' = writer_client /\ hist'.built = hist.built
            /\ writer_client # None =>
                    writer_client' = writer_client /\ hist'.built = hist.built
            /\ (last'.gen = 1 /\ writer_client = None /\ api_key) =>
                    writer_client' # None /\ hist'.built = hist.built + 1
            /\ (last'.gen = 1 /\ writer_client = None /\ ~api_key) =>
                    /\ writer_client' = None
                    /\ last'.status = 503
                    /\ last'.provider = 0
                    /\ hist'.built = hist.built
       /\ last'.op \in {"start", "crash"} => writer_client' = None /\ hist'.built = 0]_vars

C20_Witness ==
    /\ last.gen = 1
    /\ last.provider = 1
    /\ ~last.generation.built
    /\ writer_client # None
    /\ hist.built = 1
    /\ api_key

Started_tasks == {i \in 1..Len(tasks) : tasks[i].pc # "entry"}

(* C16: with several requests in flight, at most one handler is between its
   first line and its return; the record an Update read at its first line is
   the record in the map while the Update runs, so what it stores is the
   merge of its body over the record as it stands when it stores; a Delete
   that found its id still finds it when it removes it; and an id a Delete
   removed is not put back by an Update that was in flight. *)
C16_HandlersRunToCompletion ==
    /\ Cardinality(Started_tasks) <= 1
    /\ \A i \in Started_tasks :
        /\ tasks[i].op \in {"update", "delete"} => tasks[i].id \in Keys(products_db)
        /\ tasks[i].op = "update" =>
                tasks[i].existing = <<ProductResponse(Get(products_db, tasks[i].id))>>
    /\ Keys(products_db) \cap hist.removed = {}
    /\ UpdateSucceeded =>
            /\ Len(last.before) = 1
            /\ \A f \in BriefFields :
                    Get(products_db, last.id)[f] = PostMerge(last.before[1], last.request, f)

C16_Witness ==
    /\ Len(tasks) = 2
    /\ tasks[1].op = "update" /\ tasks[1].pc = "resolved" /\ tasks[1].gen = 1
    /\ tasks[2].op = "delete" /\ tasks[2].pc = "entry"
    /\ tasks[1].id = tasks[2].id
    /\ tasks[1].id \in Keys(products_db)

====
